---- MODULE Spec2Model ----
(***************************************************************************)
(* VRChat OSC bridge (src/bridge.py): the HTTP command relay.              *)
(*                                                                         *)
(* A request is served by one worker thread of Flask's development server  *)
(* (app.run, threaded by default).  Its path through the code is           *)
(*   Flask-Limiter's before_request hook  (default limits; only /health    *)
(*                                         has no decorated limit)         *)
(*   @auth.login_required                 (verify_token)                   *)
(*   @limiter.limit(...)                  (decorated limit; evaluated when *)
(*                                         the wrapper is called, that is  *)
(*                                         inside login_required)          *)
(*   the view function                    (validation, audit, side effect) *)
(* Each request slot of the model is one worker thread; pc is its place in *)
(* the code.  Strings are sequences of atoms in which "/" is always an     *)
(* atom of its own, so that str.startswith and str.split('/') are computed *)
(* on the sequence.  Real numbers are fixed point, Unit to 1.0.  The       *)
(* constraints of the pydantic fields (lengths, ranges, patterns) are taken *)
(* as they are declared.                                                   *)
(***************************************************************************)
EXTENDS Integers, Sequences, FiniteSets, TLC

(***************************************************************************)
(* Bounds of the model.                                                    *)
(***************************************************************************)
\* worker threads serving requests at the same time
MaxInFlight == 2
\* ceiling that the decorated limits ("30 per minute", ...) are scaled to
CeilCap == 2
\* RATE_LIMIT_PER_MINUTE and RATE_LIMIT_PER_HOUR of the environment
RATE_LIMIT_PER_MINUTE == 2
RATE_LIMIT_PER_HOUR == 3
\* length of the two windows, in clock ticks, and the last tick of the clock
MinuteTicks == 2
HourTicks == 3
MaxTime == 4
\* requests the clients send one after the other, and at the same time
MaxArrivals == 4
MaxConcurrentArrivals == 3

Slots == 1..MaxInFlight
Clients == {"10.0.0.1", "10.0.0.2"}

\* fixed point: 1.0
Unit == 10 * 1000

(***************************************************************************)
(* JSON values of a request body.                                          *)
(***************************************************************************)
Num(n) == [t |-> "num", v |-> n]
Str(s) == [t |-> "str", v |-> s]
Bool(b) == [t |-> "bool", v |-> b]
Null == [t |-> "null"]
List(l) == [t |-> "list", v |-> l]
Dict(d) == [t |-> "dict", v |-> d]
\* the request has no JSON body: request.json raises
NoJson == [t |-> "nojson"]
EmptyDict == Dict([q \in {} |-> Null])

Has(d, k) == k \in DOMAIN d
\* dict.get(k, default)
Get(d, k, default) == IF Has(d, k) THEN d[k] ELSE default

Range(s) == {s[i] : i \in DOMAIN s}

\* str.startswith(prefix)
StartsWith(s, prefix) ==
    /\ Len(s) >= Len(prefix)
    /\ SubSeq(s, 1, Len(prefix)) = prefix

RECURSIVE StrLen(_)
\* len(s), in characters
StrLen(s) == IF s = <<>> THEN 0 ELSE Len(Head(s)) + StrLen(Tail(s))

RECURSIVE Take(_, _)
\* s[:n], exact when the cut falls between two atoms
Take(s, n) ==
    IF s = <<>> \/ Len(Head(s)) > n THEN <<>>
    ELSE <<Head(s)>> \o Take(Tail(s), n - Len(Head(s)))

(***************************************************************************)
(* Configuration (lines 30-36, 93-102, 146-149).                           *)
(***************************************************************************)
API_KEY == "secret"

Endpoints ==
    {"health", "chatbox", "chatbox_typing", "move", "jump", "run",
     "avatar_parameter", "voice", "raw_osc", "launch_world", "screenshot",
     "listen", "list_audio_devices", "transcribe"}

\* a decorated limit "n per <granularity>", its ceiling scaled to the model
Scaled(n) == IF n > CeilCap THEN CeilCap ELSE n
Lim(n, per) == [amount |-> Scaled(n), per |-> per]

\* Limiter(default_limits=[...]): applied to the routes with no limit of
\* their own, sorted by granularity
DefaultLimits ==
    << [amount |-> RATE_LIMIT_PER_MINUTE, per |-> "minute"],
       [amount |-> RATE_LIMIT_PER_HOUR, per |-> "hour"] >>

\* @limiter.limit("...") of each view
RouteLimits(ep) ==
    CASE ep = "chatbox" -> <<Lim(30, "minute")>>
      [] ep = "chatbox_typing" -> <<Lim(60, "minute")>>
      [] ep = "move" -> <<Lim(60, "minute")>>
      [] ep = "jump" -> <<Lim(30, "minute")>>
      [] ep = "run" -> <<Lim(60, "minute")>>
      [] ep = "avatar_parameter" -> <<Lim(60, "minute")>>
      [] ep = "voice" -> <<Lim(60, "minute")>>
      [] ep = "raw_osc" -> <<Lim(10, "minute")>>
      [] ep = "launch_world" -> <<Lim(5, "hour")>>
      [] ep = "screenshot" -> <<Lim(5, "hour")>>
      [] ep = "listen" -> <<Lim(10, "hour")>>
      [] ep = "list_audio_devices" -> <<Lim(20, "minute")>>
      [] ep = "transcribe" -> <<Lim(10, "hour")>>
      [] OTHER -> <<>>

\* the views wrapped by limiter.limit: their limits are evaluated by the
\* wrapper, not by the before_request hook, and override the default limits
MarkedForLimiting(ep) == RouteLimits(ep) # <<>>

Expiry(per) == IF per = "minute" THEN MinuteTicks ELSE HourTicks

(***************************************************************************)
(* State.                                                                  *)
(***************************************************************************)
VARIABLES
    req,          \* slot -> the request a worker thread is serving
    now,          \* time.time(), in ticks
    storage,      \* MemoryStorage.storage: key -> counter
    expirations,  \* MemoryStorage.expirations: key -> expiry time
    hitLog,       \* history: key -> the evaluations of its limit, in order
    arrivals,     \* history: requests received so far
    files,        \* temporary files on disk
    env,          \* what the process found at import time
    axes          \* history: movement input -> the last value sent to it

vars == <<req, now, storage, expirations, hitLog, arrivals, files, env, axes>>

NoData == [q \in {} |-> Null]

\* a worker thread with no request
IdleReq ==
    [pc |-> "idle", ep |-> "none", client |-> "none", token |-> "",
     body |-> NoJson, status |-> 0, resp |-> NoData, data |-> NoData,
     authorized |-> FALSE, validated |-> FALSE, hits |-> 0, fx |-> <<>>,
     temp_path |-> 0, overtook |-> {}]

\* the worker is inside a blocking call: the hold of a move (line 212), a
\* screen grab (375), the wait for a recording (407, 484)
Blocked(r) == req[r].pc \in {"L212", "L375", "L407", "L484"}

InFlight(r) == req[r].pc \notin {"idle", "responded"}
Responded(r) == req[r].pc = "responded"

\* the effects of a request, by kind
Effects(r, kind) == SelectSeq(req[r].fx, LAMBDA e : e.kind = kind)
Sent(r) == Effects(r, "osc")
Audits(r) == Effects(r, "audit")

Osc(address, args) == [kind |-> "osc", address |-> address, args |-> args]
\* a record that goes to the application log, not to the audit log
Audit_info(what, arg) == [kind |-> "info", what |-> what, arg |-> arg]
\* audit_logger.warning
Audit(what, arg) == [kind |-> "audit", what |-> what, arg |-> arg]

Init ==
    /\ req = [r \in Slots |-> IdleReq]
    /\ now = 0
    /\ storage = NoData
    /\ expirations = NoData
    /\ hitLog = NoData
    /\ arrivals = 0
    /\ files = {}
    /\ axes = NoData
    /\ env \in [SCREENSHOT_AVAILABLE : BOOLEAN, AUDIO_AVAILABLE : BOOLEAN,
                whisper : BOOLEAN]

(***************************************************************************)
(* The rate limiter: Flask-Limiter over limits' MemoryStorage with the     *)
(* fixed-window strategy (storage_uri="memory://").                        *)
(***************************************************************************)
\* a dict without the key k: dict.pop(k, None)
Pop(d, k) == [x \in DOMAIN d \ {k} |-> d[x]]
\* a dict with d[k] = v
Put(d, k, v) == [x \in DOMAIN d \cup {k} |-> IF x = k THEN v ELSE d[x]]

\* MemoryStorage.get: a key whose expiry time has passed is dropped
StorageGet(s, key) ==
    IF Get(s.ex, key, 0) <= now
    THEN [st |-> Pop(s.st, key), ex |-> Pop(s.ex, key)]
    ELSE s

\* MemoryStorage.incr: the window opens at the first hit of a fresh key
StorageIncr(s, key, expiry) ==
    LET g == StorageGet(s, key)
        c == Get(g.st, key, 0) + 1
    IN  [st |-> Put(g.st, key, c),
         ex |-> IF c = 1 THEN Put(g.ex, key, now + expiry) ELSE g.ex]

\* a comparison that lets one request too many in
HitAllowed_late(count, amount) == count <= amount + 1

\* FixedWindowRateLimiter.hit: count the request, then compare
HitAllowed(count, amount) == count <= amount

RECURSIVE EvaluateLimits(_, _, _, _, _)
\* Limiter.__evaluate_limits: hit each limit in turn and stop at the first
\* that is exceeded
EvaluateLimits(lims, i, client, ep, acc) ==
    IF i > Len(lims) THEN acc
    ELSE LET key == <<client, ep, lims[i].per>>
             s2 == StorageIncr(acc.s, key, Expiry(lims[i].per))
             ok == HitAllowed(s2.st[key], lims[i].amount)
             acc2 == [s |-> s2, ok |-> ok, hits |-> acc.hits + 1,
                      log |-> Append(acc.log,
                                [key |-> key, at |-> now, ok |-> ok])]
         IN  IF ok THEN EvaluateLimits(lims, i + 1, client, ep, acc2) ELSE acc2

\* a key that does not tell the clients apart
get_remote_address_shared(r) == "10.0.0.1"

\* key_func=get_remote_address: the source address of the request
get_remote_address(r) == req[r].client

\* the limits of one request checked against the shared counters
CheckRequestLimit(r, lims) ==
    EvaluateLimits(lims, 1, get_remote_address(r), req[r].ep,
        [s |-> [st |-> storage, ex |-> expirations], ok |-> TRUE,
         hits |-> 0, log |-> <<>>])

\* the request goes on to pc when its limits allow it, and is answered 429
\* (RateLimitExceeded) otherwise
Limited(r, lims, pc) ==
    LET res == CheckRequestLimit(r, lims)
    IN  /\ storage' = res.s.st
        /\ expirations' = res.s.ex
        /\ hitLog' = [k \in DOMAIN hitLog \cup {e.key : e \in Range(res.log)} |->
              Get(hitLog, k, <<>>) \o SelectSeq(res.log, LAMBDA e : e.key = k)]
        /\ req' = [req EXCEPT ![r] =
              IF res.ok
              THEN [@ EXCEPT !.pc = pc, !.hits = @ + res.hits]
              ELSE [@ EXCEPT !.pc = "responded", !.status = 429,
                             !.hits = @ + res.hits]]

(***************************************************************************)
(* The pipeline ahead of the views.                                        *)
(***************************************************************************)
\* the answer of a view
Respond(q, status, resp) ==
    [q EXCEPT !.pc = "responded", !.status = status, !.resp = resp]

\* a server that takes a request only when it serves no other
Arrive_serial(r, requests, max) ==
    /\ \A q \in Slots : req[q].pc = "idle"
    /\ r = 1
    /\ arrivals < max
    /\ \E x \in requests :
          req' = [req EXCEPT ![r] =
                    [IdleReq EXCEPT !.pc = "before_request", !.ep = x.ep,
                        !.client = x.client, !.token = x.token, !.body = x.body]]
    /\ arrivals' = arrivals + 1
    /\ UNCHANGED <<now, storage, expirations, hitLog, files, env, axes>>

\* a request of the set `requests` reaches the least idle worker; the
\* clients send at most `max` requests.  overtook is history: the workers
\* that were inside a blocking call when the request came
Arrive(r, requests, max) ==
    /\ req[r].pc = "idle"
    /\ \A q \in Slots : q < r => req[q].pc # "idle"
    /\ arrivals < max
    /\ \E x \in requests :
          req' = [req EXCEPT ![r] =
                    [IdleReq EXCEPT !.pc = "before_request", !.ep = x.ep,
                        !.client = x.client, !.token = x.token, !.body = x.body,
                        !.overtook = {q \in Slots : Blocked(q)}]]
    /\ arrivals' = arrivals + 1
    /\ UNCHANGED <<now, storage, expirations, hitLog, files, env, axes>>

\* Limiter._check_request_limit as the before_request hook: the default
\* limits of a view that is not marked for limiting
BeforeRequest(r) ==
    /\ req[r].pc = "before_request"
    /\ IF MarkedForLimiting(req[r].ep)
       THEN /\ req' = [req EXCEPT ![r].pc = "login_required"]
            /\ UNCHANGED <<storage, expirations, hitLog>>
       ELSE Limited(r, DefaultLimits, "login_required")
    /\ UNCHANGED <<now, arrivals, files, env, axes>>

\* a check that lets every token in
verify_token_any(token) == TRUE

\* @auth.verify_token
verify_token(token) == token = API_KEY

\* @auth.login_required: 401 and the view is not called
LoginRequired(r) ==
    /\ req[r].pc = "login_required"
    /\ req' = [req EXCEPT ![r] =
          IF verify_token(req[r].token)
          THEN [@ EXCEPT !.authorized = TRUE,
                  !.pc = IF MarkedForLimiting(req[r].ep) THEN "limit" ELSE "view"]
          ELSE [@ EXCEPT !.pc = "responded", !.status = 401]]
    /\ UNCHANGED <<now, storage, expirations, hitLog, arrivals, files, env, axes>>

\* the wrapper of @limiter.limit: the decorated limits, then the view
LimitDecorator(r) ==
    /\ req[r].pc = "limit"
    /\ Limited(r, RouteLimits(req[r].ep), "view")
    /\ UNCHANGED <<now, arrivals, files, env, axes>>

\* the answer has been sent: the worker is free again
Done(r) ==
    /\ req[r].pc = "responded"
    /\ req' = [req EXCEPT ![r] = IdleReq]
    /\ UNCHANGED <<now, storage, expirations, hitLog, arrivals, files, env, axes>>

\* the clock
Tick ==
    /\ now < MaxTime
    /\ now' = now + 1
    /\ UNCHANGED <<req, storage, expirations, hitLog, arrivals, files, env, axes>>

(***************************************************************************)
(* The transport: osc.send_message builds a datagram and sends it; it      *)
(* raises when the datagram cannot be built or the socket refuses it.      *)
(***************************************************************************)
SendOutcomes == {"sent", "raised"}

(***************************************************************************)
(* GET /health (lines 151-155).                                            *)
(***************************************************************************)
\* a health check that leaves an audit record
health_audited(r) ==
    /\ req[r].pc = "view"
    /\ req[r].ep = "health"
    /\ req' = [req EXCEPT ![r] =
          Respond([@ EXCEPT !.validated = TRUE,
                            !.fx = Append(@, Audit("health", <<>>))], 200,
                  [status |-> "ok", service |-> "vrchat-bridge"])]
    /\ UNCHANGED <<now, storage, expirations, hitLog, arrivals, files, env, axes>>

health(r) ==
    /\ req[r].pc = "view"
    /\ req[r].ep = "health"
    /\ req' = [req EXCEPT ![r] =
          Respond([@ EXCEPT !.validated = TRUE], 200,
                  [status |-> "ok", service |-> "vrchat-bridge"])]
    /\ UNCHANGED <<now, storage, expirations, hitLog, arrivals, files, env, axes>>

(***************************************************************************)
(* POST /chatbox (lines 105-108, 157-179).                                 *)
(***************************************************************************)
\* pydantic's str field: a string
IsStr(x) == x.t = "str"
StrOf(x) == x.v

\* the atoms of the strings sent that are made of letters, digits and '_'
WordAtoms == {"VRCEmote", "GestureLeft", "wrld_", "1234", "99", "lobby", "hi"}
\* the atoms of the strings sent that are made of a-f, 0-9 and '-'
HexAtoms == {"1234", "99"}
\* pydantic's bool field: a bool, 0 or 1, or one of the spellings of a bool
BoolTrue == {"1", "on", "t", "true", "y", "yes"}
BoolFalse == {"0", "off", "f", "false", "n", "no"}
IsBool(x) ==
    \/ x.t = "bool"
    \/ x.t = "num" /\ x.v \in {0, 1}
    \/ x.t = "str" /\ Len(x.v) = 1 /\ x.v[1] \in BoolTrue \cup BoolFalse
\* a flag that is always set
BoolOf_set(x) == TRUE
BoolOf(x) ==
    CASE x.t = "bool" -> x.v
      [] x.t = "num" -> x.v = 1
      [] OTHER -> x.v[1] \in BoolTrue

\* ChatboxRequest(**d): the validated model, or "invalid"
ChatboxRequest(d) ==
    IF /\ Has(d, "message") /\ IsStr(d.message)
       /\ StrLen(StrOf(d.message)) >= 1 /\ StrLen(StrOf(d.message)) <= 1000
       /\ IsBool(Get(d, "direct", Bool(TRUE)))
       /\ IsBool(Get(d, "notify", Bool(TRUE)))
    THEN [ok |-> TRUE, message |-> StrOf(d.message),
          direct |-> BoolOf(Get(d, "direct", Bool(TRUE))),
          notify |-> BoolOf(Get(d, "notify", Bool(TRUE)))]
    ELSE [ok |-> FALSE]

chatbox(r) ==
    /\ req[r].pc = "view"
    /\ req[r].ep = "chatbox"
    /\ LET q == req[r]
           data == ChatboxRequest(q.body.v)
       IN  IF q.body.t # "dict"
           THEN \* request.json raises, or ** of what is no mapping
                req' = [req EXCEPT ![r] =
                          Respond(q, 500, [error |-> "Internal server error"])]
           ELSE IF ~data.ok
           THEN req' = [req EXCEPT ![r] =
                          Respond(q, 400, [error |-> "Invalid request"])]
           ELSE \E out \in SendOutcomes :
                  LET audited == [q EXCEPT !.validated = TRUE, !.data = data,
                          !.fx = Append(@, Audit("chatbox", Take(data.message, 50)))]
                  IN  req' = [req EXCEPT ![r] =
                        IF out = "sent"
                        THEN Respond([audited EXCEPT !.fx = Append(@,
                                 Osc(<<"/", "chatbox", "/", "input">>,
                                     <<data.message, data.direct, data.notify>>))],
                               200, [status |-> "sent", message |-> data.message])
                        ELSE Respond(audited, 500,
                                     [error |-> "Internal server error"])]
    /\ UNCHANGED <<now, storage, expirations, hitLog, arrivals, files, env, axes>>

(***************************************************************************)
(* POST /move (lines 110-114, 195-226).                                    *)
(***************************************************************************)
\* the spellings of a number that float() reads, among the strings sent
Numerals == [z \in {"0", "1", "0.5"} |->
                CASE z = "0" -> 0 [] z = "1" -> Unit [] OTHER -> Unit \div 2]

\* pydantic's float field: float(v) succeeds
IsFloat(x) ==
    \/ x.t \in {"num", "bool"}
    \/ x.t = "str" /\ Len(x.v) = 1 /\ x.v[1] \in DOMAIN Numerals
FloatOf(x) ==
    CASE x.t = "num" -> x.v
      [] x.t = "bool" -> (IF x.v THEN Unit ELSE 0)
      [] OTHER -> Numerals[x.v[1]]

\* a range without its upper bound
InRange_open(x, lo, hi) == IsFloat(x) /\ FloatOf(x) >= lo /\ FloatOf(x) < hi

\* Field(ge=lo, le=hi) of a float
InRange(x, lo, hi) == IsFloat(x) /\ FloatOf(x) >= lo /\ FloatOf(x) <= hi

\* MoveRequest(**d)
MoveRequest(d) ==
    LET look == Get(d, "look", Num(0))
        duration == Get(d, "duration", Num(Unit \div 2))
    IN  IF /\ Has(d, "vertical") /\ InRange(d.vertical, -Unit, Unit)
           /\ Has(d, "horizontal") /\ InRange(d.horizontal, -Unit, Unit)
           /\ InRange(look, -Unit, Unit)
           /\ InRange(duration, 0, 10 * Unit)
        THEN [ok |-> TRUE, vertical |-> FloatOf(d.vertical),
              horizontal |-> FloatOf(d.horizontal), look |-> FloatOf(look),
              duration |-> FloatOf(duration)]
        ELSE [ok |-> FALSE]

Vertical == <<"/", "input", "/", "Vertical">>
Horizontal == <<"/", "input", "/", "Horizontal">>
LookHorizontal == <<"/", "input", "/", "LookHorizontal">>

\* the movement inputs of the avatar
Axes == {Vertical, Horizontal, LookHorizontal}

\* the movement inputs after the datagram that the step of worker r has sent,
\* if it has sent one
Wire(r) ==
    LET new == SelectSeq(SubSeq(req'[r].fx, Len(req[r].fx) + 1, Len(req'[r].fx)),
                         LAMBDA e : e.kind = "osc")
    IN  IF new # <<>> /\ new[1].address \in Axes
        THEN Put(axes, new[1].address, new[1].args)
        ELSE axes

\* line 202: validation
move(r) ==
    /\ req[r].pc = "view"
    /\ req[r].ep = "move"
    /\ LET q == req[r]
           data == MoveRequest(q.body.v)
       IN  req' = [req EXCEPT ![r] =
              IF q.body.t # "dict"
              THEN Respond(q, 500, [error |-> "Internal server error"])
              ELSE IF ~data.ok
              THEN Respond(q, 400, [error |-> "Invalid request"])
              ELSE [q EXCEPT !.validated = TRUE, !.data = data, !.pc = "L205"]]
    /\ UNCHANGED <<now, storage, expirations, hitLog, arrivals, files, env, axes>>

\* a sequence that holds and resets whatever the duration is
MoveAfter_hold(pc, data) ==
    CASE pc = "L205" -> "L206"
      [] pc = "L206" -> (IF data.look # 0 THEN "L208" ELSE "L212")
      [] pc = "L208" -> "L212"
      [] pc = "L214" -> "L215"
      [] pc = "L215" -> "L216"
      [] OTHER -> "L218"

\* the statement after the send of a line
MoveAfter(pc, data) ==
    CASE pc = "L205" -> "L206"
      [] pc = "L206" -> (IF data.look # 0 THEN "L208"
                         ELSE IF data.duration > 0 THEN "L212" ELSE "L218")
      [] pc = "L208" -> (IF data.duration > 0 THEN "L212" ELSE "L218")
      [] pc = "L214" -> "L215"
      [] pc = "L215" -> "L216"
      [] OTHER -> "L218"

\* a reset that leaves the forward input as it was
MoveDatagram_coast(pc, data) ==
    CASE pc = "L205" -> Osc(Vertical, data.vertical)
      [] pc = "L206" -> Osc(Horizontal, data.horizontal)
      [] pc = "L208" -> Osc(LookHorizontal, data.look)
      [] pc = "L214" -> Osc(Vertical, data.vertical)
      [] pc = "L215" -> Osc(Horizontal, 0)
      [] OTHER -> Osc(LookHorizontal, 0)

\* the datagram of a line
MoveDatagram(pc, data) ==
    CASE pc = "L205" -> Osc(Vertical, data.vertical)
      [] pc = "L206" -> Osc(Horizontal, data.horizontal)
      [] pc = "L208" -> Osc(LookHorizontal, data.look)
      [] pc = "L214" -> Osc(Vertical, 0)
      [] pc = "L215" -> Osc(Horizontal, 0)
      [] OTHER -> Osc(LookHorizontal, 0)

\* lines 205-208 and 214-216: one osc.send_message; an exception of it ends
\* the request in the handler of line 224
move_send(r) ==
    /\ req[r].ep = "move"
    /\ req[r].pc \in {"L205", "L206", "L208", "L214", "L215", "L216"}
    /\ \E out \in SendOutcomes :
          LET q == req[r]
          IN  req' = [req EXCEPT ![r] =
                IF out = "sent"
                THEN [q EXCEPT !.fx = Append(@, MoveDatagram(q.pc, q.data)),
                               !.pc = MoveAfter(q.pc, q.data)]
                ELSE Respond(q, 500, [error |-> "Internal server error"])]
    /\ axes' = Wire(r)
    /\ UNCHANGED <<now, storage, expirations, hitLog, arrivals, files, env>>

\* line 212: time.sleep(data.duration) returns
move_hold(r) ==
    /\ req[r].ep = "move"
    /\ req[r].pc = "L212"
    /\ req' = [req EXCEPT ![r].pc = "L214"]
    /\ UNCHANGED <<now, storage, expirations, hitLog, arrivals, files, env, axes>>

\* line 218
move_return(r) ==
    /\ req[r].ep = "move"
    /\ req[r].pc = "L218"
    /\ req' = [req EXCEPT ![r] =
          Respond(@, 200, [status |-> "moved", vertical |-> @.data.vertical,
                           horizontal |-> @.data.horizontal])]
    /\ UNCHANGED <<now, storage, expirations, hitLog, arrivals, files, env, axes>>

(***************************************************************************)
(* POST /raw (lines 120-134, 291-313).                                     *)
(***************************************************************************)
\* a whitelist with the whole /avatar/ tree
allowed_prefixes_wide ==
    { <<"/", "chatbox", "/">>,
      <<"/", "input", "/">>,
      <<"/", "avatar", "/">> }

\* allowed_prefixes of RawOSCRequest.validate_address
allowed_prefixes ==
    { <<"/", "chatbox", "/">>,
      <<"/", "input", "/">>,
      <<"/", "avatar", "/", "parameters", "/">> }

validate_address(v) == \E prefix \in allowed_prefixes : StartsWith(v, prefix)

\* RawOSCRequest(**d)
RawOSCRequest(d) ==
    LET args == Get(d, "args", List(<<>>))
    IN  IF /\ Has(d, "address") /\ IsStr(d.address)
           /\ StrLen(StrOf(d.address)) >= 1 /\ StrLen(StrOf(d.address)) <= 200
           /\ validate_address(StrOf(d.address))
           /\ args.t = "list" /\ Len(args.v) <= 10
        THEN [ok |-> TRUE, address |-> StrOf(d.address), args |-> args.v]
        ELSE [ok |-> FALSE]

raw_osc(r) ==
    /\ req[r].pc = "view"
    /\ req[r].ep = "raw_osc"
    /\ LET q == req[r]
           data == RawOSCRequest(q.body.v)
       IN  IF q.body.t # "dict"
           THEN req' = [req EXCEPT ![r] =
                          Respond(q, 500, [error |-> "Internal server error"])]
           ELSE IF ~data.ok
           THEN req' = [req EXCEPT ![r] =
                          Respond(q, 400,
                            [error |-> "Invalid request - address not in whitelist"])]
           ELSE \E out \in SendOutcomes :
                  LET audited == [q EXCEPT !.validated = TRUE, !.data = data,
                          !.fx = Append(@, Audit("raw_osc",
                                   [address |-> data.address, args |-> data.args]))]
                  IN  req' = [req EXCEPT ![r] =
                        IF out = "sent"
                        THEN Respond([audited EXCEPT !.fx =
                                        Append(@, Osc(data.address, data.args))],
                               200, [status |-> "sent", address |-> data.address,
                                     args |-> data.args])
                        ELSE Respond(audited, 500,
                                     [error |-> "Internal server error"])]
    /\ axes' = Wire(r)
    /\ UNCHANGED <<now, storage, expirations, hitLog, arrivals, files, env>>

(***************************************************************************)
(* POST /launch (lines 136-144, 315-360).                                  *)
(***************************************************************************)
RECURSIVE Split(_, _)
\* s.split('/'), cur being the part read so far
Split(s, cur) ==
    IF s = <<>> THEN <<cur>>
    ELSE IF Head(s) = "/" THEN <<cur>> \o Split(Tail(s), <<>>)
    ELSE Split(Tail(s), Append(cur, Head(s)))

RECURSIVE FirstWorld(_, _)
\* lines 333-336: the first part that starts with 'wrld_', or world_id
FirstWorld(parts, world_id) ==
    IF parts = <<>> THEN world_id
    ELSE IF StartsWith(Head(parts), <<"wrld_">>) THEN Head(parts)
    ELSE FirstWorld(Tail(parts), world_id)

WebPrefix == <<"https:", "/", "/", "vrchat.com", "/", "home", "/", "world", "/">>
LaunchPrefix == <<"vrchat:", "/", "/", "launch?ref=vrchat.com&id=">>

\* pattern=r'^(wrld_[a-f0-9-]+)?$' of line 138
WorldPattern(v) ==
    \/ v = <<>>
    \/ /\ Len(v) >= 2 /\ v[1] = "wrld_"
       /\ \A i \in 2..Len(v) : v[i] \in HexAtoms

\* LaunchWorldRequest(**d).  The validator runs for the fields the body
\* gives, in the order url, world_id: while url is validated no world_id has
\* been validated yet, so a url given empty is rejected.
LaunchWorldRequest(d) ==
    LET url == Get(d, "url", Str(<<>>))
        world_id == Get(d, "world_id", Str(<<>>))
    IN  IF /\ IsStr(url) /\ StrLen(StrOf(url)) <= 500
           /\ ~(Has(d, "url") /\ StrOf(url) = <<>>)
           /\ IsStr(world_id)
           /\ ~Has(d, "world_id") \/ WorldPattern(StrOf(world_id))
        THEN [ok |-> TRUE, url |-> StrOf(url), world_id |-> StrOf(world_id)]
        ELSE [ok |-> FALSE]

\* a target that is the bare world id
launch_url_bare(url, world_id) ==
    IF url # <<>> THEN url ELSE world_id

\* lines 324-341: the target of the launch, <<>> when there is none
launch_url(url, world_id) ==
    LET wid == IF url # <<>> /\ StartsWith(url, WebPrefix)
               THEN FirstWorld(Split(url, <<>>), world_id)
               ELSE world_id
    IN  IF url # <<>> THEN url
        ELSE IF wid # <<>> THEN LaunchPrefix \o wid
        ELSE <<>>

\* os.startfile / webbrowser.open
OpenOutcomes == {"opened", "raised"}

launch_world(r) ==
    /\ req[r].pc = "view"
    /\ req[r].ep = "launch_world"
    /\ LET q == req[r]
           data == LaunchWorldRequest(q.body.v)
           target == launch_url(data.url, data.world_id)
       IN  IF q.body.t # "dict"
           THEN req' = [req EXCEPT ![r] =
                          Respond(q, 500, [error |-> "Internal server error"])]
           ELSE IF ~data.ok
           THEN req' = [req EXCEPT ![r] =
                          Respond(q, 400, [error |-> "Invalid request"])]
           ELSE IF target = <<>>
           THEN req' = [req EXCEPT ![r] =
                          Respond(q, 400, [error |-> "Provide 'url' or 'world_id'"])]
           ELSE \E out \in OpenOutcomes :
                  LET audited == [q EXCEPT !.validated = TRUE, !.data = data,
                          !.fx = Append(@, Audit("launch_world", target))]
                  IN  req' = [req EXCEPT ![r] =
                        IF out = "opened"
                        THEN Respond([audited EXCEPT !.fx =
                                        Append(@, [kind |-> "open", url |-> target])],
                               200, [status |-> "launched", url |-> target])
                        ELSE Respond(audited, 500,
                                     [error |-> "Internal server error"])]
    /\ UNCHANGED <<now, storage, expirations, hitLog, arrivals, files, env, axes>>

(***************************************************************************)
(* The capture views.  A capture blocks its worker between the call that   *)
(* starts it and the return of the call; the other workers run meanwhile.  *)
(* No lock is taken around a capture.                                      *)
(***************************************************************************)
CallOutcomes == {"returned", "raised"}

\* bool(x)
Truthy(x) ==
    CASE x.t = "bool" -> x.v
      [] x.t = "num" -> x.v # 0
      [] x.t = "str" -> x.v # <<>>
      [] x.t = "list" -> x.v # <<>>
      [] x.t = "dict" -> DOMAIN x.v # {}
      [] OTHER -> FALSE

\* `request.json or {}` followed by data.get: the dict, or "raises" when
\* there is no JSON body or the body is a true value with no get
JsonOrEmpty(body) ==
    IF body.t = "nojson" THEN [ok |-> FALSE]
    ELSE IF ~Truthy(body) THEN [ok |-> TRUE, d |-> EmptyDict.v]
    ELSE IF body.t = "dict" THEN [ok |-> TRUE, d |-> body.v]
    ELSE [ok |-> FALSE]

\* min(x, 30) of line 398 and 461: a TypeError unless x compares with an int
MinComparable(x) == x.t \in {"num", "bool"}
\* a duration that is not capped
Min30_none(x) == FloatOf(x)
Min30(x) == IF 30 * Unit < FloatOf(x) THEN 30 * Unit ELSE FloatOf(x)

\* the duration of a recording, or "raises"
Duration(body) ==
    LET j == JsonOrEmpty(body)
        x == Get(j.d, "duration", Num(5 * Unit))
    IN  IF j.ok /\ MinComparable(x)
        THEN [ok |-> TRUE, duration |-> Min30(x)]
        ELSE [ok |-> FALSE]

\* the devices a request is capturing from
Capturing(r, device) ==
    \/ device = "screen" /\ req[r].ep = "screenshot" /\ req[r].pc = "L375"
    \/ device = "microphone" /\ req[r].ep = "listen" /\ req[r].pc = "L407"
    \/ device = "microphone" /\ req[r].ep = "transcribe" /\ req[r].pc = "L484"

(***************************************************************************)
(* GET /screenshot (lines 362-386).                                        *)
(***************************************************************************)
\* lines 367-375: the audit record, then ImageGrab.grab() is called
screenshot(r) ==
    /\ req[r].pc = "view"
    /\ req[r].ep = "screenshot"
    /\ req' = [req EXCEPT ![r] =
          IF ~env.SCREENSHOT_AVAILABLE
          THEN Respond(@, 500, [error |-> "PIL not installed"])
          ELSE [@ EXCEPT !.validated = TRUE, !.pc = "L375",
                  !.fx = @ \o <<Audit("screenshot", <<>>), [kind |-> "grab"]>>]]
    /\ UNCHANGED <<now, storage, expirations, hitLog, arrivals, files, env, axes>>

\* lines 375-386: the grab returns an image, or raises
screenshot_grabbed(r) ==
    /\ req[r].ep = "screenshot"
    /\ req[r].pc = "L375"
    /\ \E out \in CallOutcomes :
          req' = [req EXCEPT ![r] =
              IF out = "returned"
              THEN Respond(@, 200, [mimetype |-> "image/jpeg"])
              ELSE Respond(@, 500, [error |-> "Internal server error"])]
    /\ UNCHANGED <<now, storage, expirations, hitLog, arrivals, files, env, axes>>

(***************************************************************************)
(* POST /listen (lines 388-419).                                           *)
(***************************************************************************)
\* lines 393-402: the duration and the audit record
listen(r) ==
    /\ req[r].pc = "view"
    /\ req[r].ep = "listen"
    /\ LET q == req[r]
           x == Duration(q.body)
       IN  req' = [req EXCEPT ![r] =
              IF ~env.AUDIO_AVAILABLE
              THEN Respond(q, 500, [error |-> "Audio libs not installed"])
              ELSE IF ~x.ok
              THEN Respond(q, 500, [error |-> "Internal server error"])
              ELSE [q EXCEPT !.validated = TRUE, !.data = x, !.pc = "L406",
                      !.fx = Append(@, Audit("listen", x.duration))]]
    /\ UNCHANGED <<now, storage, expirations, hitLog, arrivals, files, env, axes>>

\* line 406: sd.rec starts the input stream, or raises; it raises for a
\* negative number of frames
listen_rec(r) ==
    /\ req[r].ep = "listen"
    /\ req[r].pc = "L406"
    /\ \E out \in CallOutcomes :
          /\ req[r].data.duration < 0 => out = "raised"
          /\ req' = [req EXCEPT ![r] =
                IF out = "returned"
                THEN [@ EXCEPT !.pc = "L407",
                        !.fx = Append(@, [kind |-> "rec",
                                           duration |-> req[r].data.duration])]
                ELSE Respond(@, 500, [error |-> "Internal server error"])]
    /\ UNCHANGED <<now, storage, expirations, hitLog, arrivals, files, env, axes>>

\* lines 407-419: sd.wait returns and the samples are sent, or a call raises
listen_wait(r) ==
    /\ req[r].ep = "listen"
    /\ req[r].pc = "L407"
    /\ \E out \in CallOutcomes :
          req' = [req EXCEPT ![r] =
              IF out = "returned"
              THEN Respond(@, 200, [mimetype |-> "audio/wav"])
              ELSE Respond(@, 500, [error |-> "Internal server error"])]
    /\ UNCHANGED <<now, storage, expirations, hitLog, arrivals, files, env, axes>>

(***************************************************************************)
(* POST /transcribe (lines 447-521).                                       *)
(***************************************************************************)
\* the names tempfile can give a file
TempNames == 1..MaxConcurrentArrivals

\* tempfile.NamedTemporaryFile(delete=False): a name that no file has (the
\* file is opened with O_EXCL); the model takes the least one
NamedTemporaryFile(existing) ==
    CHOOSE n \in TempNames \ existing : \A m \in TempNames \ existing : n <= m

\* the names of the files on disk and of the files of the requests being
\* served: a name is not given twice while a request still remembers it, so
\* that a name tells whose file it is
NamesInUse == files \cup {req[q].temp_path : q \in Slots}

\* the try block has ended with `status`: on to the finally clause
Finally(q, status, resp) == [q EXCEPT !.pc = "L516", !.status = status, !.resp = resp]

\* lines 452-473: the import, the duration, the audit record and the
\* temporary file
transcribe(r) ==
    /\ req[r].pc = "view"
    /\ req[r].ep = "transcribe"
    /\ LET q == req[r]
           x == Duration(q.body)
           name == NamedTemporaryFile(NamesInUse)
       IN  IF ~env.AUDIO_AVAILABLE
           THEN /\ req' = [req EXCEPT ![r] =
                            Respond(q, 500, [error |-> "Audio libs not installed"])]
                /\ files' = files
           ELSE IF ~env.whisper
           THEN /\ req' = [req EXCEPT ![r] =
                            Finally(q, 500, [error |-> "Whisper not installed"])]
                /\ files' = files
           ELSE IF ~x.ok
           THEN /\ req' = [req EXCEPT ![r] =
                            Finally(q, 500, [error |-> "Transcription failed"])]
                /\ files' = files
           ELSE /\ TempNames \ NamesInUse # {}
                /\ req' = [req EXCEPT ![r] =
                      [q EXCEPT !.validated = TRUE, !.data = x, !.pc = "L479",
                         !.temp_path = name,
                         !.fx = @ \o <<Audit("transcribe", x.duration),
                                       [kind |-> "tempfile", name |-> name]>>]]
                /\ files' = files \cup {name}
    /\ UNCHANGED <<now, storage, expirations, hitLog, arrivals, env, axes>>

\* lines 478-483: sd.rec starts the input stream, or raises
transcribe_rec(r) ==
    /\ req[r].ep = "transcribe"
    /\ req[r].pc = "L479"
    /\ \E out \in CallOutcomes :
          /\ req[r].data.duration < 0 => out = "raised"
          /\ req' = [req EXCEPT ![r] =
                IF out = "returned"
                THEN [@ EXCEPT !.pc = "L484",
                        !.fx = Append(@, [kind |-> "rec",
                                           duration |-> req[r].data.duration])]
                ELSE Finally(@, 500, [error |-> "Transcription failed"])]
    /\ UNCHANGED <<now, storage, expirations, hitLog, arrivals, files, env, axes>>

\* lines 484-504: sd.wait returns, the samples are written to the file and
\* the model transcribes it, or one of the calls raises
transcribe_wait(r) ==
    /\ req[r].ep = "transcribe"
    /\ req[r].pc = "L484"
    /\ \E out \in CallOutcomes :
          req' = [req EXCEPT ![r] =
              IF out = "returned"
              THEN Finally(@, 200, [status |-> "ok"])
              ELSE Finally(@, 500, [error |-> "Transcription failed"])]
    /\ UNCHANGED <<now, storage, expirations, hitLog, arrivals, files, env, axes>>

\* a cleanup that removes nothing
Unlink_kept(existing, name, out) == existing

\* os.unlink: the file is removed, or the call raises and the file stays
Unlink(existing, name, out) == IF out = "returned" THEN existing \ {name} ELSE existing

\* lines 514-521: the finally clause, then the answer goes out
transcribe_finally(r) ==
    /\ req[r].ep = "transcribe"
    /\ req[r].pc = "L516"
    /\ IF req[r].temp_path # 0 /\ req[r].temp_path \in files
       THEN \E out \in CallOutcomes :
              /\ files' = Unlink(files, req[r].temp_path, out)
              /\ req' = [req EXCEPT ![r].pc = "responded",
                           ![r].fx = Append(@, [kind |-> "unlink", out |-> out])]
       ELSE /\ files' = files
            /\ req' = [req EXCEPT ![r].pc = "responded"]
    /\ UNCHANGED <<now, storage, expirations, hitLog, arrivals, env, axes>>

(***************************************************************************)
(* The toggles: POST /chatbox/typing, /run, /voice (lines 181-193,         *)
(* 242-254, 277-289) read one key of the body and send one datagram.       *)
(***************************************************************************)
ToggleKey(ep) ==
    CASE ep = "chatbox_typing" -> "typing"
      [] ep = "run" -> "running"
      [] OTHER -> "unmute"

ToggleAddress(ep) ==
    CASE ep = "chatbox_typing" -> <<"/", "chatbox", "/", "typing">>
      [] ep = "run" -> <<"/", "input", "/", "Run">>
      [] OTHER -> <<"/", "input", "/", "Voice">>

\* typing is sent as it came; running and unmute are sent as 1 or 0
ToggleArg(ep, x) ==
    IF ep = "chatbox_typing" THEN x ELSE Num(IF Truthy(x) THEN 1 ELSE 0)

toggle(r) ==
    /\ req[r].pc = "view"
    /\ req[r].ep \in {"chatbox_typing", "run", "voice"}
    /\ LET q == req[r]
           j == JsonOrEmpty(q.body)
           x == Get(j.d, ToggleKey(q.ep), Bool(TRUE))
       IN  IF ~j.ok
           THEN req' = [req EXCEPT ![r] =
                          Respond(q, 500, [error |-> "Internal server error"])]
           ELSE \E out \in SendOutcomes :
                  req' = [req EXCEPT ![r] =
                     IF out = "sent"
                     THEN Respond([q EXCEPT !.validated = TRUE,
                              !.fx = Append(@, Osc(ToggleAddress(q.ep),
                                                   ToggleArg(q.ep, x)))],
                            200, [status |-> "ok", value |-> x])
                     ELSE Respond([q EXCEPT !.validated = TRUE], 500,
                                  [error |-> "Internal server error"])]
    /\ UNCHANGED <<now, storage, expirations, hitLog, arrivals, files, env, axes>>

(***************************************************************************)
(* POST /jump (lines 228-240).                                             *)
(***************************************************************************)
Jump == <<"/", "input", "/", "Jump">>

\* lines 234 and 236: the press and the release
jump(r) ==
    /\ req[r].ep = "jump"
    /\ req[r].pc \in {"view", "L236"}
    /\ \E out \in SendOutcomes :
          LET q == req[r]
          IN  req' = [req EXCEPT ![r] =
                IF out = "raised"
                THEN Respond([q EXCEPT !.validated = TRUE], 500,
                             [error |-> "Internal server error"])
                ELSE IF q.pc = "view"
                THEN [q EXCEPT !.validated = TRUE, !.pc = "L235",
                        !.fx = Append(@, Osc(Jump, 1))]
                ELSE Respond([q EXCEPT !.fx = Append(@, Osc(Jump, 0))],
                             200, [status |-> "jumped"])]
    /\ UNCHANGED <<now, storage, expirations, hitLog, arrivals, files, env, axes>>

\* line 235: time.sleep(0.1) returns
jump_hold(r) ==
    /\ req[r].ep = "jump"
    /\ req[r].pc = "L235"
    /\ req' = [req EXCEPT ![r].pc = "L236"]
    /\ UNCHANGED <<now, storage, expirations, hitLog, arrivals, files, env, axes>>

(***************************************************************************)
(* POST /avatar/parameter (lines 116-118, 256-275).                        *)
(***************************************************************************)
\* a pattern that every name matches
NamePattern_any(v) == TRUE

\* pattern=r'^[a-zA-Z0-9_]+$' of line 117
NamePattern(v) == v # <<>> /\ \A i \in DOMAIN v : v[i] \in WordAtoms

\* AvatarParameterRequest(**d)
AvatarParameterRequest(d) ==
    IF /\ Has(d, "name") /\ IsStr(d.name)
       /\ StrLen(StrOf(d.name)) >= 1 /\ StrLen(StrOf(d.name)) <= 100
       /\ NamePattern(StrOf(d.name))
       /\ Has(d, "value") /\ InRange(d.value, -Unit, Unit)
    THEN [ok |-> TRUE, name |-> StrOf(d.name), value |-> FloatOf(d.value)]
    ELSE [ok |-> FALSE]

avatar_parameter(r) ==
    /\ req[r].pc = "view"
    /\ req[r].ep = "avatar_parameter"
    /\ LET q == req[r]
           data == AvatarParameterRequest(q.body.v)
       IN  IF q.body.t # "dict"
           THEN req' = [req EXCEPT ![r] =
                          Respond(q, 500, [error |-> "Internal server error"])]
           ELSE IF ~data.ok
           THEN req' = [req EXCEPT ![r] =
                          Respond(q, 400, [error |-> "Invalid request"])]
           ELSE \E out \in SendOutcomes :
                  req' = [req EXCEPT ![r] =
                     IF out = "sent"
                     THEN Respond([q EXCEPT !.validated = TRUE, !.data = data,
                              !.fx = Append(@,
                                 Osc(<<"/", "avatar", "/", "parameters", "/">>
                                        \o data.name, data.value))],
                            200, [status |-> "set", parameter |-> data.name,
                                  value |-> data.value])
                     ELSE Respond([q EXCEPT !.validated = TRUE, !.data = data],
                                  500, [error |-> "Internal server error"])]
    /\ UNCHANGED <<now, storage, expirations, hitLog, arrivals, files, env, axes>>

(***************************************************************************)
(* GET /listen/devices (lines 421-445).                                    *)
(***************************************************************************)
list_audio_devices(r) ==
    /\ req[r].pc = "view"
    /\ req[r].ep = "list_audio_devices"
    /\ \E out \in CallOutcomes :
          req' = [req EXCEPT ![r] =
              IF ~env.AUDIO_AVAILABLE
              THEN Respond(@, 500, [error |-> "Audio libs not installed"])
              ELSE IF out = "returned"
              THEN Respond([@ EXCEPT !.validated = TRUE], 200,
                           [devices |-> "device_list"])
              ELSE Respond([@ EXCEPT !.validated = TRUE], 500,
                           [error |-> "Internal server error"])]
    /\ UNCHANGED <<now, storage, expirations, hitLog, arrivals, files, env, axes>>

(***************************************************************************)
(* Requests the clients send.                                              *)
(***************************************************************************)
Hi == <<"hi">>

Request(ep, client, token, body) ==
    [ep |-> ep, client |-> client, token |-> token, body |-> body]

\* a client with and without the key, on /health and on /chatbox
RateRequests ==
    {Request(ep, "10.0.0.1", token,
             IF ep = "chatbox" THEN Dict([message |-> Str(Hi)]) ELSE NoJson) :
        ep \in {"health", "chatbox"}, token \in {API_KEY, ""}}

\* a move that holds, one that looks and does not hold, one out of range
MoveBodies ==
    { Dict([vertical |-> Num(Unit), horizontal |-> Num(0)]),
      Dict([vertical |-> Num(0), horizontal |-> Num(-Unit), look |-> Num(Unit),
            duration |-> Num(0)]),
      Dict([vertical |-> Num(Unit), horizontal |-> Num(0),
            duration |-> Num(10 * Unit + 1)]) }

MoveRequests ==
    {Request("move", "10.0.0.1", API_KEY, body) : body \in MoveBodies}
        \cup {Request("move", "10.0.0.1", "wrong", Dict([vertical |-> Num(Unit),
                                                      horizontal |-> Num(0)]))}

\* captures with no body and with an empty one; a recording of a duration
\* that is no number; a request with no key
CaptureRequests ==
    {Request("screenshot", "10.0.0.1", API_KEY, NoJson)}
    \cup {Request(ep, "10.0.0.1", API_KEY, body) :
            ep \in {"listen", "transcribe"},
            body \in {EmptyDict, Dict([duration |-> Str(<<"5">>)])}}
    \cup {Request("transcribe", "10.0.0.1", "", EmptyDict)}

\* addresses of /raw: in the three trees, a prefix alone, and near misses
RawAddresses ==
    { <<"/", "chatbox", "/", "input">>,
      <<"/", "input", "/", "Jump">>,
      <<"/", "avatar", "/", "parameters", "/", "VRCEmote">>,
      <<"/", "input", "/">>,
      <<"/", "avatar", "/", "change">>,
      <<"/", "avatar", "/", "parameters">>,
      <<"/", "chatbox">>,
      <<"/", "inputs", "/", "Jump">>,
      <<"/", "tracking", "/", "head">>,
      <<"chatbox", "/", "input">>,
      <<>> }

\* args of /raw: none, one, and one more than max_length
RawArgs ==
    { List(<<>>), List(<<Num(1)>>), List([i \in 1..11 |-> Num(i)]) }

RawRequests ==
    {Request("raw_osc", "10.0.0.1", API_KEY,
             Dict([address |-> Str(a), args |-> x])) :
        a \in RawAddresses, x \in RawArgs}
    \cup {Request("raw_osc", "10.0.0.1", API_KEY,
                  Dict([address |-> Str(<<"/", "input", "/", "Jump">>)])),
          Request("raw_osc", "10.0.0.1", API_KEY, Dict([address |-> Num(5)])),
          Request("raw_osc", "10.0.0.1", "wrong",
                  Dict([address |-> Str(<<"/", "tracking", "/", "head">>)]))}

World == <<"wrld_", "1234">>

\* bodies of /launch: a web URL of a world, with and without a tail, a launch
\* URL, a world id, both, another site, no world, an empty url
LaunchBodies ==
    { Dict([url |-> Str(WebPrefix \o World)]),
      Dict([url |-> Str(WebPrefix \o World \o <<"/", "info">>)]),
      Dict([url |-> Str(LaunchPrefix \o World)]),
      Dict([world_id |-> Str(World)]),
      Dict([url |-> Str(WebPrefix \o World), world_id |-> Str(<<"wrld_", "99">>)]),
      Dict([url |-> Str(<<"https:", "/", "/", "example.org", "/">>)]),
      Dict([world_id |-> Str(<<"lobby">>)]),
      Dict([url |-> Str(<<>>), world_id |-> Str(World)]),
      EmptyDict }

LaunchRequests ==
    {Request("launch_world", "10.0.0.1", API_KEY, body) : body \in LaunchBodies}
    \cup {Request("launch_world", "10.0.0.1", "",
                  Dict([url |-> Str(WebPrefix \o World)]))}

\* a body the view accepts and one it does not, for every view that reads one
SampleBodies(ep) ==
    CASE ep = "chatbox" ->
            {Dict([message |-> Str(Hi)]), Dict([message |-> Str(<<>>)])}
      [] ep \in {"chatbox_typing", "run", "voice"} ->
            {EmptyDict, List(<<Num(1)>>)}
      [] ep = "move" ->
            {Dict([vertical |-> Num(Unit), horizontal |-> Num(0)]),
             Dict([vertical |-> Num(2 * Unit), horizontal |-> Num(0)])}
      [] ep = "avatar_parameter" ->
            {Dict([name |-> Str(<<"VRCEmote">>), value |-> Num(Unit)]),
             Dict([name |-> Str(<<"VRCEmote">>), value |-> Num(2 * Unit)]),
             Dict([name |-> Str(<<"VRCEmote", "/", "GestureLeft">>),
                   value |-> Num(-Unit)])}
      [] ep = "raw_osc" ->
            {Dict([address |-> Str(<<"/", "input", "/", "Jump">>),
                   args |-> List(<<Num(1)>>)]),
             Dict([address |-> Str(<<"/", "tracking", "/", "head">>)])}
      [] ep = "launch_world" ->
            {Dict([world_id |-> Str(World)]), EmptyDict}
      [] ep \in {"listen", "transcribe"} ->
            {EmptyDict, Dict([duration |-> Str(<<"5">>)])}
      [] OTHER -> {NoJson}

\* every view, with the key and without it
AllRequests ==
    {Request(ep, "10.0.0.1", API_KEY, body) :
        <<ep, body>> \in UNION {{<<e, b>> : b \in SampleBodies(e)} : e \in Endpoints}}
    \cup {Request(ep, "10.0.0.1", "wrong",
                  CHOOSE b \in SampleBodies(ep) : b.t \in {"dict", "nojson"}) :
            ep \in Endpoints}

\* moves on the bounds of the four fields and just outside them
MoveBoundBodies ==
    { Dict([vertical |-> Num(Unit), horizontal |-> Num(-Unit),
            look |-> Num(Unit), duration |-> Num(10 * Unit)]),
      Dict([vertical |-> Num(-Unit), horizontal |-> Num(Unit),
            look |-> Num(-Unit), duration |-> Num(0)]),
      Dict([vertical |-> Num(0), horizontal |-> Num(0),
            duration |-> Num(10 * Unit + 1)]),
      Dict([vertical |-> Num(0), horizontal |-> Num(0), duration |-> Num(-1)]),
      Dict([vertical |-> Num(Unit + 1), horizontal |-> Num(0)]),
      Dict([vertical |-> Num(0), horizontal |-> Num(-Unit - 1)]),
      Dict([vertical |-> Num(0), horizontal |-> Num(0), look |-> Num(Unit + 1)]) }

\* recordings of no stated duration, of 29, 30 and 45 seconds, and of -1
RecordBodies ==
    {EmptyDict}
    \cup {Dict([duration |-> Num(n * Unit)]) : n \in {29, 30, 45, -1}}

\* a message with its flags left out, given, and cleared
ChatboxBodies ==
    { Dict([message |-> Str(Hi)]),
      Dict([message |-> Str(Hi), direct |-> Bool(TRUE), notify |-> Bool(TRUE)]),
      Dict([message |-> Str(Hi), direct |-> Bool(FALSE)]),
      Dict([message |-> Str(Hi), direct |-> Bool(FALSE), notify |-> Bool(FALSE)]),
      Dict([message |-> Str(Hi), notify |-> Bool(FALSE)]) }

FieldRequests ==
    {Request("move", "10.0.0.1", API_KEY, body) : body \in MoveBoundBodies}
    \cup {Request(ep, "10.0.0.1", API_KEY, body) :
            ep \in {"listen", "transcribe"}, body \in RecordBodies}
    \cup {Request("chatbox", "10.0.0.1", API_KEY, body) : body \in ChatboxBodies}

(***************************************************************************)
(* Specifications.                                                         *)
(***************************************************************************)
AllAvailable ==
    [SCREENSHOT_AVAILABLE |-> TRUE, AUDIO_AVAILABLE |-> TRUE, whisper |-> TRUE]

\* /health and /chatbox under the clock, one request at a time: the limiter
\* and the authentication
NextRate ==
    \/ Arrive(1, RateRequests, MaxArrivals)
    \/ BeforeRequest(1)
    \/ LoginRequired(1)
    \/ LimitDecorator(1)
    \/ health(1)
    \/ chatbox(1)
    \/ Done(1)
    \/ Tick

InitRate == Init /\ env = AllAvailable

SpecRate == InitRate /\ [][NextRate]_vars

\* concurrent /move requests
NextMove ==
    \/ \E r \in Slots : Arrive(r, MoveRequests, MaxInFlight)
    \/ \E r \in Slots : BeforeRequest(r)
    \/ \E r \in Slots : LoginRequired(r)
    \/ \E r \in Slots : LimitDecorator(r)
    \/ \E r \in Slots : move(r)
    \/ \E r \in Slots : move_send(r)
    \/ \E r \in Slots : move_hold(r)
    \/ \E r \in Slots : move_return(r)
    \/ \E r \in Slots : Done(r)

SpecMove == InitRate /\ [][NextMove]_vars

\* concurrent captures, one per worker, in every environment
NextCapture ==
    \/ \E r \in Slots : Arrive(r, CaptureRequests, MaxInFlight)
    \/ \E r \in Slots : BeforeRequest(r)
    \/ \E r \in Slots : LoginRequired(r)
    \/ \E r \in Slots : LimitDecorator(r)
    \/ \E r \in Slots : screenshot(r)
    \/ \E r \in Slots : screenshot_grabbed(r)
    \/ \E r \in Slots : listen(r)
    \/ \E r \in Slots : listen_rec(r)
    \/ \E r \in Slots : listen_wait(r)
    \/ \E r \in Slots : transcribe(r)
    \/ \E r \in Slots : transcribe_rec(r)
    \/ \E r \in Slots : transcribe_wait(r)
    \/ \E r \in Slots : transcribe_finally(r)
    \/ \E r \in Slots : Done(r)

SpecCapture == Init /\ [][NextCapture]_vars

\* /raw and /launch, one request at a time
NextRelay ==
    \/ Arrive(1, RawRequests \cup LaunchRequests, MaxConcurrentArrivals)
    \/ BeforeRequest(1)
    \/ LoginRequired(1)
    \/ LimitDecorator(1)
    \/ raw_osc(1)
    \/ launch_world(1)
    \/ Done(1)

SpecRelay == InitRate /\ [][NextRelay]_vars

\* a client with the key on /health, /chatbox and /raw, and another on
\* /chatbox
QuotaRequests ==
    {Request(ep, "10.0.0.1", API_KEY,
             CASE ep = "chatbox" -> Dict([message |-> Str(Hi)])
               [] ep = "raw_osc" ->
                    Dict([address |-> Str(<<"/", "input", "/", "Jump">>)])
               [] OTHER -> NoJson) :
        ep \in {"health", "chatbox", "raw_osc"}}
    \cup {Request("chatbox", "10.0.0.2", API_KEY, Dict([message |-> Str(Hi)]))}

\* the counters of two clients and three views under the clock, one request
\* at a time
NextQuota ==
    \/ Arrive(1, QuotaRequests, MaxArrivals)
    \/ BeforeRequest(1)
    \/ LoginRequired(1)
    \/ LimitDecorator(1)
    \/ health(1)
    \/ chatbox(1)
    \/ raw_osc(1)
    \/ Done(1)
    \/ Tick

SpecQuota == InitRate /\ [][NextQuota]_vars

(***************************************************************************)
(* The client of src/lexis_control.py, on the host of the bridge.          *)
(***************************************************************************)
\* @app.route: the view of a path
Route(path) ==
    CASE path = "/health" -> "health"
      [] path = "/chatbox" -> "chatbox"
      [] path = "/chatbox/typing" -> "chatbox_typing"
      [] path = "/move" -> "move"
      [] path = "/jump" -> "jump"
      [] path = "/run" -> "run"
      [] path = "/avatar/parameter" -> "avatar_parameter"
      [] path = "/raw" -> "raw_osc"

\* the token of a request with no Authorization header
NoToken == ""

\* BRIDGE_HOST: the client runs where the bridge runs
ClientAddress == "10.0.0.1"

\* send_command, lines 17-29: a POST of the JSON of data whose only header
\* is Content-Type
send_command(endpoint, data) ==
    Request(Route(endpoint), ClientAddress, NoToken, data)

\* health_check, line 40: a GET with no header
health_check == Request("health", ClientAddress, NoToken, NoJson)

\* lines 46-87: the calls of the client, with the defaults of their
\* arguments
ClientRequests ==
    { health_check,
      send_command("/chatbox", Dict([message |-> Str(Hi), direct |-> Bool(TRUE),
                                     notify |-> Bool(TRUE)])),
      send_command("/chatbox/typing", Dict([typing |-> Bool(TRUE)])),
      send_command("/move", Dict([vertical |-> Num(Unit), horizontal |-> Num(0),
                                  look |-> Num(0), duration |-> Num(Unit \div 2)])),
      send_command("/jump", EmptyDict),
      send_command("/run", Dict([running |-> Bool(TRUE)])),
      send_command("/avatar/parameter",
                   Dict([name |-> Str(<<"VRCEmote">>), value |-> Num(Unit)])),
      send_command("/raw", Dict([address |-> Str(<<"/", "input", "/", "Jump">>),
                                 args |-> List(<<Num(1)>>)])) }

\* lines 31-35 and 39-44: what the call returns.  urlopen raises HTTPError,
\* a URLError, for an answer that is not 2xx; send_command returns its text
\* as the error, health_check returns a fixed text
ClientResult(q) ==
    IF q.status \in 200..299 THEN q.resp
    ELSE IF q.ep = "health" THEN [error |-> "Bridge not reachable"]
    ELSE [error |-> "HTTP Error", code |-> q.status]

\* the calls of the client against the bridge under the clock, one at a
\* time; no call gets past login_required, so no view runs
NextClient ==
    \/ Arrive(1, ClientRequests, MaxArrivals)
    \/ BeforeRequest(1)
    \/ LoginRequired(1)
    \/ Done(1)
    \/ Tick

SpecClient == InitRate /\ [][NextClient]_vars

\* every view, one request at a time
View(r) ==
    \/ health(r)
    \/ chatbox(r)
    \/ toggle(r)
    \/ move(r)
    \/ move_send(r)
    \/ move_hold(r)
    \/ move_return(r)
    \/ jump(r)
    \/ jump_hold(r)
    \/ avatar_parameter(r)
    \/ raw_osc(r)
    \/ launch_world(r)
    \/ screenshot(r)
    \/ screenshot_grabbed(r)
    \/ listen(r)
    \/ listen_rec(r)
    \/ listen_wait(r)
    \/ list_audio_devices(r)
    \/ transcribe(r)
    \/ transcribe_rec(r)
    \/ transcribe_wait(r)
    \/ transcribe_finally(r)

Next ==
    \/ Arrive(1, AllRequests, MaxConcurrentArrivals)
    \/ BeforeRequest(1)
    \/ LoginRequired(1)
    \/ LimitDecorator(1)
    \/ View(1)
    \/ Done(1)

Spec == InitRate /\ [][Next]_vars

(***************************************************************************)
(* Properties.                                                             *)
(***************************************************************************)
\* the views of the privileged commands
Privileged == {"raw_osc", "launch_world", "screenshot", "listen", "transcribe"}

\* the kinds of effect that act on the world
Acts == {"osc", "open", "grab", "rec", "tempfile"}

\* C1: a request whose bearer token is missing or differs from the API key
\* is answered 401 and has no effect at all: nothing is sent, audited,
\* captured or launched for it, and no rate-limit counter is incremented.
C1_UnauthenticatedNoEffect ==
    \A r \in Slots :
        req[r].pc # "idle" /\ req[r].token # API_KEY =>
            /\ req[r].fx = <<>>
            /\ req[r].hits = 0
            /\ Responded(r) => req[r].status = 401

\* the body is one the view of ep accepts
Acceptable(ep, body) ==
    CASE ep \in {"chatbox", "move", "avatar_parameter", "raw_osc", "launch_world"} ->
            /\ body.t = "dict"
            /\ CASE ep = "chatbox" -> ChatboxRequest(body.v).ok
                 [] ep = "move" -> MoveRequest(body.v).ok
                 [] ep = "avatar_parameter" -> AvatarParameterRequest(body.v).ok
                 [] ep = "raw_osc" -> RawOSCRequest(body.v).ok
                 [] OTHER ->
                      LET data == LaunchWorldRequest(body.v)
                      IN  data.ok /\ launch_url(data.url, data.world_id) # <<>>
      [] ep \in {"chatbox_typing", "run", "voice"} -> JsonOrEmpty(body).ok
      [] ep \in {"listen", "transcribe"} -> Duration(body).ok
      [] OTHER -> TRUE

\* C2: at every moment of a request, an effect (datagram, capture, launch,
\* audit record) has happened only if the request carried the API key and a
\* body its view accepts; a request that fails either test is answered with
\* an error and none of the later stages has run for it.
C2_EffectsOnlyWhenAccepted ==
    \A r \in Slots :
        /\ req[r].fx # <<>> =>
              /\ req[r].token = API_KEY /\ Acceptable(req[r].ep, req[r].body)
              /\ req[r].authorized /\ req[r].validated
        /\ req[r].validated => req[r].authorized
        /\ req[r].authorized => req[r].token = API_KEY
        /\ Responded(r) /\ req[r].token # API_KEY =>
              /\ req[r].status \in {401, 429}
              /\ ~req[r].authorized /\ ~req[r].validated /\ req[r].fx = <<>>
        /\ Responded(r) /\ req[r].token = API_KEY
              /\ ~Acceptable(req[r].ep, req[r].body) =>
              /\ req[r].status \in {400, 429, 500}
              /\ ~req[r].validated /\ req[r].fx = <<>>

\* C2, its case: an accepted request has had its effects and one is answered
C2_Witness ==
    \E r \in Slots :
        /\ Responded(r) /\ req[r].status = 200
        /\ Len(req[r].fx) >= 2 /\ req[r].authorized /\ req[r].validated

\* the three trees of the whitelist, written out
InTree(a) ==
    \/ Len(a) >= 3 /\ a[1] = "/" /\ a[2] \in {"chatbox", "input"} /\ a[3] = "/"
    \/ /\ Len(a) >= 5 /\ a[1] = "/" /\ a[2] = "avatar" /\ a[3] = "/"
       /\ a[4] = "parameters" /\ a[5] = "/"

\* a /raw request with an address outside the trees
OutsideTree(r) ==
    /\ req[r].ep = "raw_osc"
    /\ req[r].body.t = "dict"
    /\ Has(req[r].body.v, "address")
    /\ req[r].body.v.address.t = "str"
    /\ ~InTree(req[r].body.v.address.v)

\* C3: a /raw request whose address starts with none of '/chatbox/',
\* '/input/', '/avatar/parameters/' is rejected whatever its args: no audit
\* record, no datagram; and every datagram of /raw has an address that starts
\* with one of the three.
C3_RawWhitelist ==
    \A r \in Slots :
        /\ OutsideTree(r) =>
              /\ req[r].fx = <<>>
              /\ ~req[r].validated
              /\ Responded(r) => req[r].status \in {400, 401, 429}
              /\ Responded(r) /\ req[r].authorized /\ req[r].hits = 1
                    /\ req[r].status # 429 => req[r].status = 400
        /\ req[r].ep = "raw_osc" =>
              \A i \in DOMAIN Sent(r) : InTree(Sent(r)[i].address)

\* C3, its case: an address outside the trees with well-formed args is
\* answered 400
C3_Witness ==
    \E r \in Slots :
        /\ OutsideTree(r) /\ Responded(r) /\ req[r].status = 400
        /\ req[r].body.v.address.v = <<"/", "avatar", "/", "change">>
        /\ Get(req[r].body.v, "args", Null) = List(<<Num(1)>>)

\* the start signals of a move: Vertical, Horizontal, and LookHorizontal when
\* look is not 0
Starts(r) == IF req[r].data.look # 0 THEN 3 ELSE 2

\* C4: an accepted /move with duration > 0 that has sent its start signals
\* is never answered without having sent the stop signals Vertical=0,
\* Horizontal=0, LookHorizontal=0 after them, also when a send fails.
C4_StopAfterStart ==
    \A r \in Slots :
        /\ req[r].ep = "move" /\ Responded(r) /\ req[r].validated
        /\ req[r].data.duration > 0
        /\ Len(Sent(r)) >= Starts(r)
        => SubSeq(Sent(r), Starts(r) + 1, Len(Sent(r)))
             = <<Osc(Vertical, 0), Osc(Horizontal, 0), Osc(LookHorizontal, 0)>>

\* the per-minute ceiling of /chatbox
ChatboxCeiling == RouteLimits("chatbox")[1].amount

\* the evaluations of the /chatbox limit of a client, in order
ChatboxLog(c) == Get(hitLog, <<c, "chatbox", "minute">>, <<>>)

RECURSIVE FixedWindow(_, _, _, _)
\* the hits of the log h from the i-th on are judged as a window of one
\* minute judges them: the window opened at `opened` and has n hits; a hit at
\* or after its end opens the next one; a hit is admitted while the hits of
\* its window, itself included, are no more than the ceiling
FixedWindow(h, i, opened, n) ==
    IF i > Len(h) THEN TRUE
    ELSE LET fresh == n = 0 \/ h[i].at >= opened + MinuteTicks
             n2 == IF fresh THEN 1 ELSE n + 1
         IN  /\ h[i].ok = (n2 <= ChatboxCeiling)
             /\ FixedWindow(h, i + 1, IF fresh THEN h[i].at ELSE opened, n2)

\* C5: for one client and /chatbox with the ceiling N per minute, the
\* requests of a window are admitted up to the N-th, the (N+1)-th of the
\* window is answered 429 with no datagram and no audit record, and a
\* request after the window has rolled over is admitted again.
C5_ChatboxCeiling ==
    /\ \A c \in Clients : FixedWindow(ChatboxLog(c), 1, 0, 0)
    /\ \A r \in Slots :
          req[r].ep = "chatbox" /\ req[r].hits = 1 /\ req[r].pc # "limit" =>
              LET h == ChatboxLog(req[r].client)
              IN  IF h[Len(h)].ok
                  THEN req[r].status # 429
                  ELSE Responded(r) /\ req[r].status = 429 /\ req[r].fx = <<>>

\* C5, its case: N requests admitted, the (N+1)-th of the same window
\* rejected, and one after the roll-over admitted
C5_Witness ==
    \E c \in Clients :
        LET h == ChatboxLog(c)
            N == ChatboxCeiling
        IN  /\ Len(h) >= N + 2
            /\ \A i \in 1..N : h[i].ok
            /\ ~h[N + 1].ok /\ h[N + 1].at < h[1].at + MinuteTicks
            /\ h[N + 2].ok /\ h[N + 2].at >= h[1].at + MinuteTicks

\* no two requests hold the same temporary file
DistinctTempNames ==
    \A r1, r2 \in Slots :
        r1 # r2 /\ req[r1].temp_path # 0 /\ req[r2].temp_path # 0 =>
            req[r1].temp_path # req[r2].temp_path

\* the os.unlink of the request raised
UnlinkRaised(r) ==
    \E i \in DOMAIN req[r].fx :
        req[r].fx[i].kind = "unlink" /\ req[r].fx[i].out = "raised"

C7_OneCaptureAtATime ==
    \A device \in {"microphone", "screen"} :
        Cardinality({r \in Slots : Capturing(r, device)}) <= 1

\* C8: for /raw, /launch, /screenshot, /listen and /transcribe, every
\* datagram, URL open, screen grab, recording and file of a request comes
\* after an audit record of the same request.
C8_AuditBeforeEffect ==
    \A r \in Slots :
        req[r].ep \in Privileged =>
            \A i \in DOMAIN req[r].fx :
                req[r].fx[i].kind \in Acts =>
                    \E j \in 1..(i - 1) :
                        /\ req[r].fx[j].kind = "audit"
                        /\ req[r].fx[j].what = req[r].ep

\* C8, its case: a privileged request has been audited and has acted
C8_Witness ==
    \E r \in Slots :
        /\ req[r].ep \in Privileged /\ Len(req[r].fx) >= 2
        /\ req[r].fx[1].kind = "audit" /\ req[r].fx[2].kind \in Acts

\* the world of a web URL https://vrchat.com/home/world/<wrld_id>...
WebWorld(url) == SubSeq(url, Len(WebPrefix) + 1, Len(WebPrefix) + 2)

\* a /launch request whose url is a web URL of a world
WebLaunch(r) ==
    /\ req[r].ep = "launch_world"
    /\ req[r].body.t = "dict"
    /\ Has(req[r].body.v, "url")
    /\ req[r].body.v.url.t = "str"
    /\ StartsWith(req[r].body.v.url.v, WebPrefix \o <<"wrld_">>)
    /\ Len(req[r].body.v.url.v) >= Len(WebPrefix) + 2

\* C9: for a /launch request whose url is a web URL of a world, the target
\* audited, opened and returned is
\* vrchat://launch?ref=vrchat.com&id=<wrld_id>.
C9_WebUrlNormalized ==
    \A r \in Slots :
        WebLaunch(r) =>
            LET target == LaunchPrefix \o WebWorld(req[r].body.v.url.v)
            IN  /\ \A i \in DOMAIN req[r].fx :
                      /\ req[r].fx[i].kind = "audit" => req[r].fx[i].arg = target
                      /\ req[r].fx[i].kind = "open" => req[r].fx[i].url = target
                /\ Responded(r) /\ req[r].status = 200 => req[r].resp.url = target

\* C11: the status of an answer tells the stage that failed: 401 for the
\* authentication, 429 for the rate limit, 400 for a body the view does not
\* accept (missing, of the wrong type, out of range, a duration of /listen
\* or /transcribe that is no number), and 500 only for an internal failure.
C11_StatusByStage ==
    \A r \in Slots :
        Responded(r) =>
            /\ ~req[r].authorized => req[r].status \in {401, 429}
            /\ req[r].authorized /\ req[r].status # 429
                  /\ ~Acceptable(req[r].ep, req[r].body) => req[r].status = 400
            /\ req[r].status = 500 =>
                  req[r].resp \in {[error |-> "Internal server error"],
                                   [error |-> "Transcription failed"]}

\* the start signals a move sends for its data
StartSignals(data) ==
    <<Osc(Vertical, data.vertical), Osc(Horizontal, data.horizontal)>>
        \o (IF data.look # 0 THEN <<Osc(LookHorizontal, data.look)>> ELSE <<>>)

\* C12: an accepted /move with duration = 0 sends its start signals, does
\* not hold, sends no reset and answers 'moved': the inputs stay as asked.
C12_NoHoldNoReset ==
    \A r \in Slots :
        req[r].ep = "move" /\ req[r].validated /\ req[r].data.duration = 0 =>
            /\ req[r].pc \notin {"L212", "L214", "L215", "L216"}
            /\ \E n \in 0..3 : Sent(r) = SubSeq(StartSignals(req[r].data), 1, n)
            /\ Responded(r) /\ req[r].status = 200 =>
                  /\ Sent(r) = StartSignals(req[r].data)
                  /\ req[r].resp.status = "moved"

\* C12, its case: a move of duration 0 that looks is answered 'moved' with
\* its three start signals sent
C12_Witness ==
    \E r \in Slots :
        /\ req[r].ep = "move" /\ Responded(r) /\ req[r].status = 200
        /\ req[r].data.duration = 0 /\ req[r].data.look # 0
        /\ Len(Sent(r)) = 3

\* /chatbox, /move, /listen and /transcribe with the values of their fields
\* on and around the bounds, one request at a time
NextFields ==
    \/ Arrive(1, FieldRequests, MaxConcurrentArrivals)
    \/ BeforeRequest(1)
    \/ LoginRequired(1)
    \/ LimitDecorator(1)
    \/ chatbox(1)
    \/ move(1)
    \/ move_send(1)
    \/ move_hold(1)
    \/ move_return(1)
    \/ listen(1)
    \/ listen_rec(1)
    \/ listen_wait(1)
    \/ transcribe(1)
    \/ transcribe_rec(1)
    \/ transcribe_wait(1)
    \/ transcribe_finally(1)
    \/ Done(1)

SpecFields == InitRate /\ [][NextFields]_vars

\* the request has passed the authentication and its rate limit
Admitted(r) ==
    /\ req[r].authorized
    /\ req[r].pc \notin {"limit", "view"}
    /\ req[r].status # 429

\* the value of a number field of a body, or its default
FieldOf(body, k, default) == IF Has(body.v, k) THEN body.v[k].v ELSE default

\* vertical, horizontal and look in [-1, 1], duration in [0, 10]
InBounds(body) ==
    /\ -Unit <= body.v.vertical.v /\ body.v.vertical.v <= Unit
    /\ -Unit <= body.v.horizontal.v /\ body.v.horizontal.v <= Unit
    /\ -Unit <= FieldOf(body, "look", 0) /\ FieldOf(body, "look", 0) <= Unit
    /\ 0 <= FieldOf(body, "duration", Unit \div 2)
    /\ FieldOf(body, "duration", Unit \div 2) <= 10 * Unit

\* C13: a /move request is accepted if and only if vertical, horizontal and
\* look lie in [-1, 1] and duration in [0, 10], the bounds included; a
\* rejected one sends nothing.
C13_MoveBounds ==
    \A r \in Slots :
        req[r].ep = "move" =>
            /\ Admitted(r) => (req[r].validated <=> InBounds(req[r].body))
            /\ ~InBounds(req[r].body) =>
                  /\ req[r].fx = <<>>
                  /\ Responded(r) /\ Admitted(r) => req[r].status = 400

\* C13, its case: a move with every field on a bound is answered 'moved'
C13_Witness ==
    \E r \in Slots :
        /\ req[r].ep = "move" /\ Responded(r) /\ req[r].status = 200
        /\ FieldOf(req[r].body, "duration", 0) = 10 * Unit
        /\ req[r].body.v.horizontal.v = -Unit

\* the duration a recording is to have for its body
Capped(body) ==
    LET asked == FieldOf(body, "duration", 5 * Unit)
    IN  IF asked > 30 * Unit THEN 30 * Unit ELSE asked

\* C14: the duration /listen and /transcribe record for, and write to the
\* audit record, is at most 30 seconds whatever the caller asks, and is 5
\* seconds when the body gives none.
C14_DurationCapped ==
    \A r \in Slots :
        req[r].ep \in {"listen", "transcribe"} =>
            \A i \in DOMAIN req[r].fx :
                /\ req[r].fx[i].kind = "audit" =>
                      /\ req[r].fx[i].arg <= 30 * Unit
                      /\ req[r].fx[i].arg = Capped(req[r].body)
                /\ req[r].fx[i].kind = "rec" =>
                      /\ req[r].fx[i].duration <= 30 * Unit
                      /\ req[r].fx[i].duration = Capped(req[r].body)

\* C14, its case: a recording asked for 45 seconds is made for 30
C14_Witness ==
    \E r \in Slots :
        /\ req[r].ep \in {"listen", "transcribe"}
        /\ FieldOf(req[r].body, "duration", 0) = 45 * Unit
        /\ \E i \in DOMAIN req[r].fx :
              req[r].fx[i].kind = "rec" /\ req[r].fx[i].duration = 30 * Unit

\* a flag of a body, set when it is left out
Flag(body, k) == IF Has(body.v, k) THEN body.v[k].v ELSE TRUE

\* C15: an accepted /chatbox request sends exactly one datagram, to
\* /chatbox/input with the arguments [message, direct, notify], the flags
\* being true when left out, and answers {status: 'sent', message}.
C15_ChatboxSend ==
    \A r \in Slots :
        req[r].ep = "chatbox" =>
            /\ Len(Sent(r)) <= 1
            /\ Responded(r) /\ req[r].status = 200 =>
                  /\ Sent(r) = <<Osc(<<"/", "chatbox", "/", "input">>,
                                     <<req[r].body.v.message.v,
                                       Flag(req[r].body, "direct"),
                                       Flag(req[r].body, "notify")>>)>>
                  /\ req[r].resp = [status |-> "sent",
                                    message |-> req[r].body.v.message.v]
            /\ Responded(r) /\ req[r].status # 200 => Sent(r) = <<>>

\* C15, its case: a message with direct cleared and notify left out is sent
C15_Witness ==
    \E r \in Slots :
        /\ req[r].ep = "chatbox" /\ Responded(r) /\ req[r].status = 200
        /\ Sent(r)[1].args = <<Hi, FALSE, TRUE>>

\* the report of the service
ServiceStatus == [status |-> "ok", service |-> "vrchat-bridge"]

\* only health checks are being served
OnlyHealth == \A r \in Slots : req[r].ep \in {"health", "none"}

\* the counters and the windows of the other views are as they were
OtherClassesUnchanged ==
    \A key \in DOMAIN storage \cup DOMAIN storage' :
        key[2] # "health" =>
            /\ key \in DOMAIN storage /\ key \in DOMAIN storage'
            /\ storage'[key] = storage[key]
            /\ expirations'[key] = expirations[key]

MoveStep(r) ==
    \/ BeforeRequest(r)
    \/ LoginRequired(r)
    \/ LimitDecorator(r)
    \/ move(r)
    \/ move_send(r)
    \/ move_hold(r)
    \/ move_return(r)

Counter(key) ==
    IF Get(expirations, key, 0) <= now THEN 0 ELSE Get(storage, key, 0)

\* the limits that the next step of a request evaluates
LimitsAt(r) ==
    CASE req[r].pc = "before_request" /\ ~MarkedForLimiting(req[r].ep) ->
            DefaultLimits
      [] req[r].pc = "limit" -> RouteLimits(req[r].ep)
      [] OTHER -> <<>>

\* the counters of the keys that are not of the pair (client, view)
Foreign(st, ex, client, ep) ==
    [k \in {x \in DOMAIN st \cup DOMAIN ex : x[1] # client \/ x[2] # ep} |->
        <<Get(st, k, 0), Get(ex, k, 0)>>]

\* C18: the counters are kept per (client address, view): a step of a
\* request changes no counter of another client or of another view, and the
\* request is answered 429 exactly when the counter of an open window of its
\* own pair has reached the ceiling of that window.
C18_PerClientPerClass ==
    [][\A r \in Slots :
          req'[r] # req[r] /\ req[r].pc # "idle" =>
              LET c == req[r].client
                  ep == req[r].ep
                  lims == LimitsAt(r)
              IN  /\ Foreign(storage', expirations', c, ep)
                        = Foreign(storage, expirations, c, ep)
                  /\ (req'[r].status = 429) <=>
                        \E i \in DOMAIN lims :
                            Counter(<<c, ep, lims[i].per>>) >= lims[i].amount]_vars

\* C18, its case: a request has been admitted and answered 200 while the
\* counter of another client for the same view, or of the same client for
\* another view, stands at its ceiling or beyond
C18_Witness ==
    \E r \in Slots, k \in DOMAIN storage :
        /\ Responded(r) /\ req[r].status = 200 /\ req[r].hits >= 1
        /\ \/ k[1] # req[r].client /\ k[2] = req[r].ep
           \/ k[1] = req[r].client /\ k[2] # req[r].ep /\ k[2] = "chatbox"
        /\ \E i \in DOMAIN RouteLimits(k[2]) :
              /\ RouteLimits(k[2])[i].per = k[3]
              /\ Counter(k) > RouteLimits(k[2])[i].amount

\* the view of /launch has run for the request and answered
Launched(r) ==
    /\ Responded(r) /\ req[r].ep = "launch_world"
    /\ req[r].authorized /\ req[r].status # 429

\* the request was taken with the target t: the audit record names t, then
\* t is opened and the answer is 'launched' with t, unless the opening raised
TakenWith(r, t) ==
    /\ req[r].status \in {200, 500}
    /\ Len(req[r].fx) >= 1 /\ req[r].fx[1] = Audit("launch_world", t)
    /\ IF req[r].status = 200
       THEN /\ req[r].fx = <<Audit("launch_world", t), [kind |-> "open", url |-> t]>>
            /\ req[r].resp = [status |-> "launched", url |-> t]
       ELSE req[r].fx = <<Audit("launch_world", t)>>

\* C19: /launch takes a body with a url alone, and a body with a well-formed
\* world_id alone, whose target is vrchat://launch?ref=vrchat.com&id=<id>; a
\* body with neither is answered 400, nothing audited and nothing opened.
C19_LaunchUrlOrWorld ==
    \A r \in Slots :
        Launched(r) /\ req[r].body.t = "dict" =>
            LET d == req[r].body.v
            IN  /\ DOMAIN d = {"url"} /\ IsStr(d.url) /\ StrOf(d.url) # <<>> =>
                      TakenWith(r, StrOf(d.url))
                /\ DOMAIN d = {"world_id"} /\ IsStr(d.world_id)
                      /\ StrOf(d.world_id) # <<>>
                      /\ WorldPattern(StrOf(d.world_id)) =>
                      TakenWith(r, <<"vrchat:", "/", "/", "launch?ref=vrchat.com&id=">>
                                      \o StrOf(d.world_id))
                /\ DOMAIN d = {} => req[r].status = 400 /\ req[r].fx = <<>>

\* C19, its case: a world id alone has been taken and its target opened
C19_Witness ==
    \E r \in Slots :
        /\ Launched(r) /\ req[r].status = 200
        /\ req[r].body = Dict([world_id |-> Str(World)])
        /\ req[r].fx[2].url = LaunchPrefix \o World

\* '/avatar/parameters/'
ParametersPrefix == <<"/", "avatar", "/", "parameters", "/">>

\* C20: every datagram the bridge has sent has an address that starts with
\* '/chatbox/', '/input/' or '/avatar/parameters/'; a datagram of
\* /avatar/parameter goes to '/avatar/parameters/<name>' where the name is
\* not empty and has no path separator, and carries a value within [-1, 1].
C20_AddressTrees ==
    \A r \in Slots :
        \A i \in DOMAIN Sent(r) :
            LET m == Sent(r)[i]
            IN  /\ InTree(m.address)
                /\ req[r].ep = "avatar_parameter" =>
                      LET name == SubSeq(m.address, Len(ParametersPrefix) + 1,
                                         Len(m.address))
                      IN  /\ StartsWith(m.address, ParametersPrefix)
                          /\ name # <<>>
                          /\ \A j \in DOMAIN name :
                                name[j] # "/" /\ name[j] \in WordAtoms
                          /\ m.args >= -Unit /\ m.args <= Unit

\* C20, its case: /avatar/parameter has sent a datagram
C20_Witness ==
    \E r \in Slots :
        /\ Responded(r) /\ req[r].ep = "avatar_parameter" /\ req[r].status = 200
        /\ Sent(r) = <<Osc(ParametersPrefix \o <<"VRCEmote">>, Unit)>>

\* the workers that serve or have served a request
Busy == {r \in Slots : req[r].pc # "idle"}

\* every request so far is a /move with a hold that has answered 'moved'
AllMovesHeld ==
    /\ Busy # {} /\ arrivals = Cardinality(Busy)
    /\ \A r \in Busy :
          /\ Responded(r) /\ req[r].ep = "move" /\ req[r].status = 200
          /\ req[r].data.duration > 0

\* C21: when the /move requests that ran, all with a hold and none failed,
\* have all answered, the last value sent to /input/Vertical,
\* /input/Horizontal and /input/LookHorizontal is 0, whatever the
\* interleaving; and the hold of one request does not keep another from
\* sending its reset.
C21_StoppedAfterMoves ==
    /\ AllMovesHeld =>
          \A a \in Axes : a \in DOMAIN axes /\ axes[a] = 0
    /\ \A r1, r2 \in Slots :
          /\ r1 # r2 /\ req[r1].pc = "L212"
          /\ req[r2].ep = "move" /\ req[r2].pc \in {"L214", "L215", "L216"}
          => ENABLED move_send(r2)

\* C21, its case: two moves with a hold have answered, the second having
\* come while the first was in its hold
C21_Witness ==
    \E r1, r2 \in Slots :
        /\ AllMovesHeld /\ Busy = {r1, r2} /\ r1 # r2
        /\ r1 \in req[r2].overtook
        /\ \A a \in Axes : a \in DOMAIN axes /\ axes[a] = 0

\* a reset of one request has landed inside the hold of another: the
\* forward input is 0 while a request that set it is still in its hold
C21_ResetInsideHold ==
    \E r1, r2 \in Slots :
        /\ r1 # r2 /\ arrivals = 2
        /\ req[r1].pc = "L212" /\ req[r1].data.vertical # 0
        /\ req[r2].ep = "move" /\ req[r2].pc \in {"L215", "L216", "L218", "responded"}
        /\ Vertical \in DOMAIN axes /\ axes[Vertical] = 0

\* C22: no request of the client carries a bearer token, so every call of
\* the client is answered 401 with no effect on the bridge, never reaches a
\* view, and returns a value with an 'error' key.
C22_ClientUnauthenticated ==
    \A r \in Slots :
        req[r].pc # "idle" =>
            /\ req[r].token = NoToken
            /\ req[r].fx = <<>>
            /\ req[r].pc \notin {"limit", "view"}
            /\ Responded(r) =>
                  /\ req[r].status = 401
                  /\ "error" \in DOMAIN ClientResult(req[r])

\* no call of the client reaches a view or has an effect, and every call
\* returns a value with an 'error' key
C22_NeverDispatched ==
    \A r \in Slots :
        req[r].pc # "idle" =>
            /\ req[r].token = NoToken
            /\ req[r].fx = <<>> /\ ~req[r].authorized
            /\ req[r].pc \notin {"limit", "view"}
            /\ Responded(r) =>
                  /\ req[r].status \in {401, 429}
                  /\ req[r].status = 429 => req[r].ep = "health"
                  /\ "error" \in DOMAIN ClientResult(req[r])

====
